---- MODULE Spec2Model ----
\* Grid construction and crossing detection of calculate_signals (src/app.py).
\* Prices are integer ticks; grid levels are exact rationals num/den, so the
\* comparisons prev > g, curr <= g are decided exactly.  NaN (the max/min of an
\* empty column) is the rational with denominator 0: every comparison with it
\* is false.
EXTENDS Integers, Sequences, FiniteSets

\* ---- bounds ----
MaxLen == 4
MaxPrice == 3
MaxGrid == 3
MaxStart == 2

VARIABLES df, grid_num, high_price, low_price, grids, buy_signals,
          sell_signals, buy_at, sell_at, i, pc, ret

vars == <<df, grid_num, high_price, low_price, grids, buy_signals,
          sell_signals, buy_at, sell_at, i, pc, ret>>

\* ---- numbers ----
Rat(n, d) == [num |-> n, den |-> d]

NaN == Rat(0, 0)

Raised == Rat(0, -1)

IsNaN(x) == x.den = 0

FromInt(p) == Rat(p, 1)

Eq(a, b) == ~IsNaN(a) /\ ~IsNaN(b) /\ a.num * b.den = b.num * a.den

Lt(a, b) == ~IsNaN(a) /\ ~IsNaN(b) /\ a.num * b.den < b.num * a.den

Le(a, b) == ~IsNaN(a) /\ ~IsNaN(b) /\ a.num * b.den <= b.num * a.den

Gt(a, b) == Lt(b, a)

Ge(a, b) == Le(b, a)

Add(a, b) == IF IsNaN(a) \/ IsNaN(b) THEN NaN
             ELSE Rat(a.num * b.den + b.num * a.den, a.den * b.den)

Sub(a, b) == IF IsNaN(a) \/ IsNaN(b) THEN NaN
             ELSE Rat(a.num * b.den - b.num * a.den, a.den * b.den)

MulInt(k, a) == IF IsNaN(a) THEN NaN ELSE Rat(k * a.num, a.den)

DivInt(a, d) == IF IsNaN(a) THEN NaN ELSE Rat(a.num, a.den * d)

\* ---- the input frame ----
\* df is indexed 0..len-1 as in Python; each row has its index value (date)
\* and its Close price.
Length(d) == Cardinality(DOMAIN d)

prices(d) == [j \in DOMAIN d |-> d[j].Close]

dates(d) == [j \in DOMAIN d |-> d[j].date]

SeriesMaxRaising(d) ==
    IF DOMAIN d = {} THEN Raised
    ELSE FromInt(CHOOSE m \in {d[j].Close : j \in DOMAIN d} :
                    \A j \in DOMAIN d : d[j].Close <= m)

\* df['Close'].max(): NaN on an empty column
SeriesMax(d) ==
    IF DOMAIN d = {} THEN NaN
    ELSE FromInt(CHOOSE m \in {d[j].Close : j \in DOMAIN d} :
                    \A j \in DOMAIN d : d[j].Close <= m)

\* df['Close'].min(): NaN on an empty column
SeriesMin(d) ==
    IF DOMAIN d = {} THEN NaN
    ELSE FromInt(CHOOSE m \in {d[j].Close : j \in DOMAIN d} :
                    \A j \in DOMAIN d : m <= d[j].Close)

IsDegenerateNever(high, low) == FALSE

\* high_price == low_price
IsDegenerate(high, low) == Eq(high, low)

\* ---- grid ----
linspaceNoEndpoint(start, stop, num) ==
    LET step == DivInt(Sub(stop, start), num)
    IN  [j \in 1..num |-> Add(start, MulInt(j - 1, step))]

\* np.linspace(start, stop, num): num samples, endpoint included
linspace(start, stop, num) ==
    LET div == num - 1
        delta == Sub(stop, start)
        step == DivInt(delta, div)
    IN  [j \in 1..num |->
            IF j = num /\ num > 1 THEN stop
            ELSE Add(start, MulInt(j - 1, step))]

InteriorKeepLast(y) == SubSeq(y, 2, Len(y))

\* y[1:-1]
Interior(y) == SubSeq(y, 2, Len(y) - 1)

\* ---- crossing tests ----
BuyCondLoose(prev, curr, g) == Ge(prev, g) /\ Le(curr, g)

\* prev > g and curr <= g
BuyCond(prev, curr, g) == Gt(prev, g) /\ Le(curr, g)

SellCondStrict(prev, curr, g) == Lt(prev, g) /\ Gt(curr, g)

\* prev < g and curr >= g
SellCond(prev, curr, g) == Lt(prev, g) /\ Ge(curr, g)

EntryPrev(d, j) == <<dates(d)[j - 1], prices(d)[j - 1]>>

\* (date, curr)
Entry(d, j) == <<dates(d)[j], prices(d)[j]>>

\* one pass of "for g in grids" for step j, starting at level k; acc carries
\* the two lists and, beside them, the (step, level) that produced each entry
Visit(d, gs, j, k, acc) ==
    LET prev == FromInt(prices(d)[j - 1])
        curr == FromInt(prices(d)[j])
        a1 == IF BuyCond(prev, curr, gs[k])
              THEN [acc EXCEPT !.buy = Append(@, Entry(d, j)),
                               !.buy_at = Append(@, <<j, k>>)]
              ELSE acc
    IN  IF SellCond(prev, curr, gs[k])
        THEN [a1 EXCEPT !.sell = Append(@, Entry(d, j)),
                        !.sell_at = Append(@, <<j, k>>)]
        ELSE a1

RECURSIVE ScanGridsNearest(_, _, _, _, _)
ScanGridsNearest(d, gs, j, k, acc) ==
    IF k > Len(gs) THEN acc
    ELSE LET a == Visit(d, gs, j, k, acc)
         IN  IF a # acc THEN a ELSE ScanGridsNearest(d, gs, j, k + 1, a)

RECURSIVE ScanGridsDesc(_, _, _, _, _)
ScanGridsDesc(d, gs, j, k, acc) ==
    IF k > Len(gs) THEN acc
    ELSE ScanGridsDesc(d, gs, j, k + 1, Visit(d, gs, j, Len(gs) + 1 - k, acc))

RECURSIVE ScanGrids(_, _, _, _, _)
ScanGrids(d, gs, j, k, acc) ==
    IF k > Len(gs) THEN acc
    ELSE ScanGrids(d, gs, j, k + 1, Visit(d, gs, j, k, acc))

\* ---- the call ----
Frames ==
    UNION {[0..(n - 1) -> 0..MaxPrice] : n \in 0..MaxLen}

Init ==
    /\ \E p \in Frames, s \in 1..MaxStart :
          df = [j \in DOMAIN p |-> [date |-> s + j, Close |-> p[j]]]
    /\ grid_num \in 0..MaxGrid
    /\ high_price = NaN
    /\ low_price = NaN
    /\ grids = <<>>
    /\ buy_signals = <<>>
    /\ sell_signals = <<>>
    /\ buy_at = <<>>
    /\ sell_at = <<>>
    /\ i = 0
    /\ pc = "start"
    /\ ret = <<>>

\* high_price = df['Close'].max(); low_price = df['Close'].min()
ComputeRange ==
    /\ pc = "start"
    /\ high_price' = SeriesMax(df)
    /\ low_price' = SeriesMin(df)
    /\ pc' = IF SeriesMax(df) = Raised \/ SeriesMin(df) = Raised
             THEN "raised" ELSE "ranged"
    /\ UNCHANGED <<df, grid_num, grids, buy_signals, sell_signals, buy_at,
                   sell_at, i, ret>>

\* if high_price == low_price: return [], [], []
ReturnDegenerate ==
    /\ pc = "ranged"
    /\ IsDegenerate(high_price, low_price)
    /\ ret' = <<<<>>, <<>>, <<>>>>
    /\ pc' = "done"
    /\ UNCHANGED <<df, grid_num, high_price, low_price, grids, buy_signals,
                   sell_signals, buy_at, sell_at, i>>

\* grids = np.linspace(low_price, high_price, grid_num + 2)[1:-1]
BuildGrid ==
    /\ pc = "ranged"
    /\ ~IsDegenerate(high_price, low_price)
    /\ grids' = Interior(linspace(low_price, high_price, grid_num + 2))
    /\ buy_signals' = <<>>
    /\ sell_signals' = <<>>
    /\ buy_at' = <<>>
    /\ sell_at' = <<>>
    /\ i' = 1
    /\ pc' = "scan"
    /\ UNCHANGED <<df, grid_num, high_price, low_price, ret>>

\* one iteration of "for i in range(1, len(prices))", inner loop included
ScanStep ==
    /\ pc = "scan"
    /\ i < Length(df)
    /\ LET r == ScanGrids(df, grids, i, 1,
                          [buy |-> buy_signals, sell |-> sell_signals,
                           buy_at |-> buy_at, sell_at |-> sell_at])
       IN  /\ buy_signals' = r.buy
           /\ sell_signals' = r.sell
           /\ buy_at' = r.buy_at
           /\ sell_at' = r.sell_at
    /\ i' = i + 1
    /\ UNCHANGED <<df, grid_num, high_price, low_price, grids, pc, ret>>

\* return grids, buy_signals, sell_signals
Return ==
    /\ pc = "scan"
    /\ i >= Length(df)
    /\ ret' = <<grids, buy_signals, sell_signals>>
    /\ pc' = "done"
    /\ UNCHANGED <<df, grid_num, high_price, low_price, grids, buy_signals,
                   sell_signals, buy_at, sell_at, i>>

Next ==
    \/ ComputeRange
    \/ ReturnDegenerate
    \/ BuildGrid
    \/ ScanStep
    \/ Return

Spec == Init /\ [][Next]_vars

TypeOK ==
    /\ pc \in {"start", "ranged", "scan", "done", "raised"}
    /\ grid_num \in 0..MaxGrid
    /\ Len(buy_signals) = Len(buy_at)
    /\ Len(sell_signals) = Len(sell_at)

\* ---- vocabulary of the properties ----
Done == pc = "done"

Steps == 1..(Length(df) - 1)

P(j) == FromInt(df[j].Close)

Point(j) == <<df[j].date, df[j].Close>>

Occurrences(s, e) == Cardinality({x \in 1..Len(s) : s[x] = e})

OnDate(s, j) == {x \in 1..Len(s) : s[x][1] = df[j].date}

NonDegenerate == \E a, b \in DOMAIN df : df[a].Close < df[b].Close

AllEqual == \A a, b \in DOMAIN df : df[a].Close = df[b].Close

Spacing == DivInt(Sub(high_price, low_price), grid_num + 1)

JumpUp(j, G) ==
    /\ Len(G) >= 1
    /\ \A k \in 1..Len(G) : Lt(P(j - 1), G[k]) /\ Gt(P(j), G[k])

\* C1: in the returned lists, the entry (dates[i], prices[i]) occurs in the
\* buy list once per level g with prices[i-1] > g and prices[i] <= g, and in
\* the sell list once per level g with prices[i-1] < g and prices[i] >= g, for
\* every step i >= 1 and every level of the returned grid; the lists hold
\* nothing else.
C1_ExactCrossings ==
    Done =>
      LET G == ret[1] IN
      /\ \A j \in Steps :
            /\ Occurrences(ret[2], Point(j)) =
                 Cardinality({k \in 1..Len(G) :
                                Gt(P(j - 1), G[k]) /\ Le(P(j), G[k])})
            /\ Occurrences(ret[3], Point(j)) =
                 Cardinality({k \in 1..Len(G) :
                                Lt(P(j - 1), G[k]) /\ Ge(P(j), G[k])})
      /\ \A x \in 1..Len(ret[2]) : \E j \in Steps : ret[2][x] = Point(j)
      /\ \A x \in 1..Len(ret[3]) : \E j \in Steps : ret[3][x] = Point(j)

C1_Witness ==
    /\ Done
    /\ \E j \in Steps : Occurrences(ret[2], Point(j)) >= 2
    /\ \E j \in Steps : Occurrences(ret[3], Point(j)) >= 2
    /\ \E j \in Steps : Occurrences(ret[3], Point(j)) = 1

C3_DegenerateRange ==
    /\ pc # "raised"
    /\ (Done /\ Length(df) >= 1 /\ grid_num >= 1) =>
          (ret[1] = <<>> <=> AllEqual)
    /\ (Done /\ Length(df) >= 1 /\ AllEqual) => ret = <<<<>>, <<>>, <<>>>>

C3_Witness ==
    Done /\ Length(df) >= 2 /\ AllEqual /\ grid_num >= 1 /\ ret[1] = <<>>

C5_MultiLevelJump ==
    Done =>
      \A j \in Steps :
        JumpUp(j, ret[1]) =>
          /\ Occurrences(ret[3], Point(j)) = grid_num
          /\ Cardinality(OnDate(ret[3], j)) = grid_num
          /\ OnDate(ret[2], j) = {}
          /\ SelectSeq(sell_at, LAMBDA e : e[1] = j) =
               [k \in 1..grid_num |-> <<j, k>>]

C5_Witness ==
    /\ Done
    /\ grid_num >= 2
    /\ \E j \in Steps :
          JumpUp(j, ret[1]) /\ Cardinality(OnDate(ret[3], j)) = grid_num

Ordered(list, at) ==
    /\ Len(list) = Len(at)
    /\ \A x \in 1..Len(list) : list[x] = Point(at[x][1])
    /\ \A x, y \in 1..Len(list) :
          x < y =>
            /\ at[x][1] <= at[y][1]
            /\ list[x][1] <= list[y][1]
            /\ at[x][1] = at[y][1] => Lt(grids[at[x][2]], grids[at[y][2]])

\* C6: at every point of the scan, each list is in non-decreasing order of
\* the step that detected the entry (so of date), and entries of one step are
\* in ascending order of the level that triggered them; the lists returned are
\* these lists.
C6_DetectionOrder ==
    /\ Ordered(buy_signals, buy_at)
    /\ Ordered(sell_signals, sell_at)
    /\ Done => (ret[2] = buy_signals /\ ret[3] = sell_signals)

C6_Witness ==
    /\ Done
    /\ \E x, y \in 1..Len(buy_at) : x < y /\ buy_at[x][1] = buy_at[y][1]
    /\ \E x, y \in 1..Len(sell_at) : x < y /\ sell_at[x][1] < sell_at[y][1]
    /\ ret[2] = buy_signals /\ ret[3] = sell_signals

\* C7: every returned signal is (dates[i], prices[i]) of the step i >= 1 that
\* detected it: the arrival point's price, and never the first point of the
\* series.
C7_SignalIsArrivalPoint ==
    Done =>
      /\ \A x \in 1..Len(ret[2]) :
            /\ buy_at[x][1] \in Steps
            /\ ret[2][x] = Point(buy_at[x][1])
            /\ ret[2][x][1] # df[0].date
      /\ \A x \in 1..Len(ret[3]) :
            /\ sell_at[x][1] \in Steps
            /\ ret[3][x] = Point(sell_at[x][1])
            /\ ret[3][x][1] # df[0].date

C7_Witness ==
    /\ Done
    /\ \E x \in 1..Len(ret[2]) :
          /\ ret[2][x] = Point(buy_at[x][1])
          /\ ~Eq(FromInt(ret[2][x][2]), ret[1][buy_at[x][2]])
          /\ ret[2][x][2] # df[buy_at[x][1] - 1].Close
    /\ \E x \in 1..Len(ret[3]) : ret[3][x] = Point(sell_at[x][1])

\* C8: the call never raises, and a series of length 0 or 1, or any input
\* whose returned grid is empty, returns an empty buy list and an empty sell
\* list.
C8_EmptyOutputs ==
    /\ pc # "raised"
    /\ (Done /\ (Length(df) <= 1 \/ ret[1] = <<>>)) =>
          (ret[2] = <<>> /\ ret[3] = <<>>)

C8_Witness ==
    Done /\ Length(df) = 0 /\ ret[2] = <<>> /\ ret[3] = <<>>

C10_StepDirection ==
    \A j \in Steps :
      /\ ~(OnDate(buy_signals, j) # {} /\ OnDate(sell_signals, j) # {})
      /\ OnDate(buy_signals, j) # {} => df[j].Close < df[j - 1].Close
      /\ OnDate(sell_signals, j) # {} => df[j].Close > df[j - 1].Close
      /\ df[j].Close = df[j - 1].Close =>
            (OnDate(buy_signals, j) = {} /\ OnDate(sell_signals, j) = {})

C10_Witness ==
    /\ Done
    /\ buy_signals # <<>>
    /\ sell_signals # <<>>
    /\ \E j \in Steps :
          /\ df[j].Close = df[j - 1].Close
          /\ \E k \in 1..Len(grids) : Eq(P(j), grids[k])
====
